---- MODULE Spec2Model ----
(***************************************************************************)
(* AsyncEventEmitter (src/src/index.ts, lines 168-486) and the legacy       *)
(* EventEmitter (lines 11-99) as state machines over the same variables.   *)
(*                                                                         *)
(* JavaScript runs one synchronous block at a time.  A synchronous block   *)
(* is modelled by the call stack `stack`: while it is not empty only its   *)
(* top frame runs; when it is empty the event loop is idle and the         *)
(* environment may call the emitter, settle a suspended listener or let a  *)
(* suspended wrapper continue.  The order in which ready continuations run *)
(* is left open, which covers the order the microtask queue would pick.    *)
(***************************************************************************)
EXTENDS Integers, Sequences, FiniteSets, TLC

\* Bounds of the exploration
MaxCalls == 4       \* calls of on, once and emit made by the program, and failures of its listeners

errorMonitor == "errorMonitor"
Names == {"x", "error", errorMonitor}
\* a protocol that wrapped the listeners of errorMonitor
ReservedOnlyError == {"error"}
Reserved == {"error", errorMonitor}
\* the caller's listener functions, by identity
Fns == {1, 2}

VARIABLES
  listenersByName,  \* the Map: [has] says whether the name is a key, [set] is its Set in insertion order
  subs,             \* one record per call of on/once: what its `off` closure captured
  unsub,            \* the [unsubscribeFromSignalAbortEvent] property of each caller's function
  aborted,          \* signal.aborted of the caller's AbortSignal
  abortListeners,   \* the 'abort' listeners of that signal: the subscriptions whose `off` is
                    \* hooked, and (negated) the waits whose `onAbort` is hooked
  emits,            \* one record per call of emit: its promise and the listener calls it made
  stack,            \* the synchronous call stack, innermost frame last
  nEmits,           \* calls of emit made by the program (not by the error protocol)
  nThrows,          \* failures of listeners
  waits             \* one record per call of wait, race or throwOnError: its promise

vars == <<listenersByName, subs, unsub, aborted, abortListeners, emits, stack, nEmits, nThrows,
          waits>>

----------------------------------------------------------------------------
\* Sequences and Sets in insertion order

Last(s) == s[Len(s)]
Front(s) == SubSeq(s, 1, Len(s) - 1)
Without(s, p) == SubSeq(s, 1, p - 1) \o SubSeq(s, p + 1, Len(s))

\* position of listener l in the Set s, 0 when absent (Set.has)
Pos(s, l) == IF \E i \in 1..Len(s) : s[i].l = l
             THEN CHOOSE i \in 1..Len(s) : s[i].l = l
             ELSE 0

\* Map.has(name), Map.get(name)?.size, Map.keys()
Has(reg, n) == reg[n].has
Size(reg, n) == IF reg[n].has THEN Len(reg[n].set) ELSE 0
Keys(reg) == {n \in Names : reg[n].has}
NoSet == [has |-> FALSE, set |-> <<>>]

\* the listener that a subscription stores in the Set: the caller's function itself
\* for 'error' and errorMonitor, a fresh async wrapper otherwise; once() passes a
\* fresh closure as the listener
WrappedListener(sid, n, kind, fn) ==
  IF n \in Reserved /\ kind = "on" THEN 0 - fn ELSE sid

\* listener[unsubscribeFromSignalAbortEvent]: the subscription whose abort hook it removes
UnsubOf(l) == IF l > 0
              THEN (IF subs[l].sig THEN l ELSE 0)
              ELSE unsub[0 - l]

----------------------------------------------------------------------------
\* Emit records, call records and frames

\* a call of one Set entry by emit.  ph: "run" (its synchronous part is on the stack),
\* "pend" (the listener's promise is pending), "mon" / "err" (the wrapper awaits
\* emit(errorMonitor) / emit('error'), whose record is aw), "ok", "fail" (settled).
\* raised is what the listener raised, val what the call's promise rejected with.
\* async is history kept for emitSerial: the listener returned a pending promise.
NewCall(item, wrapped, once, stale) ==
  [l |-> item.l, at |-> item.at, ph |-> "run", aw |-> 0, raised |-> 0, val |-> 0,
   wrapped |-> wrapped, once |-> once, stale |-> stale, async |-> FALSE]

\* a call of emit.  st: "iter" (Array.from is running), "pending", "resolved",
\* "rejected" (with val).  snap and removed are history: the subscriptions in the
\* Set when emit began, and those deleted from it while Array.from was running.
\* serial, idx and det belong to emitSerial of the legacy EventEmitter, whose
\* for...of loop keeps its Set iterator across its awaits (st is then "serial").
NewEmit(n, data, st, snap) ==
  [name |-> n, data |-> data, st |-> st, val |-> 0, calls |-> <<>>,
   snap |-> snap, removed |-> {}, serial |-> FALSE, idx |-> 0, det |-> FALSE]

EmitFrame(m, n) == [t |-> "emit", m |-> m, c |-> 0, name |-> n, idx |-> 0, det |-> FALSE]
FnFrame(m, c) == [t |-> "fn", m |-> m, c |-> c, name |-> "", idx |-> 0, det |-> FALSE]

\* the value a listener call raises when it fails
Err(m, c) == 100 * m + c

----------------------------------------------------------------------------
\* off(eventName, listener), lines 188-195, on the machine state
\* R = [reg, hooks, stack, emits, waits]

\* a Set iterator keeps its place when an entry before it is deleted; an iterator
\* over a Set that left the Map sees an empty Set for ever
AdjustFrame(f, n, p, deleted) ==
  IF f.t = "emit" /\ f.name = n /\ ~f.det
  THEN [f EXCEPT !.idx = IF p <= @ THEN @ - 1 ELSE @, !.det = deleted]
  ELSE f

OffListener(R, n, l) ==
  LET hooks == R.hooks \ {UnsubOf(l)}
      p == IF Has(R.reg, n) THEN Pos(R.reg[n].set, l) ELSE 0
  IN IF p = 0
     THEN [R EXCEPT !.hooks = hooks]
     ELSE LET s == Without(R.reg[n].set, p)
              deleted == Len(s) = 0
              at == R.reg[n].set[p].at
          IN [reg |-> IF deleted
                      THEN [R.reg EXCEPT ![n] = NoSet]
                      ELSE [R.reg EXCEPT ![n].set = s],
              hooks |-> hooks,
              stack |-> [i \in DOMAIN R.stack |-> AdjustFrame(R.stack[i], n, p, deleted)],
              emits |-> [m \in DOMAIN R.emits |->
                           IF R.emits[m].name = n /\ R.emits[m].st = "iter"
                           THEN [R.emits[m] EXCEPT !.removed = @ \cup {at}]
                           ELSE R.emits[m]],
              waits |-> R.waits]

\* off(eventName): forEach listener of the Set, off(eventName, listener), lines 197-199
RECURSIVE OffName(_, _)
OffName(R, n) ==
  IF Size(R.reg, n) = 0 THEN R
  ELSE OffName(OffListener(R, n, R.reg[n].set[1].l), n)

\* off(): forEach Set of the Map, forEach listener, lines 202-204
RECURSIVE OffAllFrom(_, _)
OffAllFrom(R, ns) ==
  IF ns = {} THEN R
  ELSE LET n == CHOOSE k \in ns : TRUE
       IN OffAllFrom(OffName(R, n), ns \ {n})

Machine == [reg |-> listenersByName, hooks |-> abortListeners, stack |-> stack, emits |-> emits,
            waits |-> waits]

Install(R) ==
  /\ listenersByName' = R.reg
  /\ abortListeners' = R.hooks
  /\ stack' = R.stack
  /\ emits' = R.emits
  /\ waits' = R.waits

----------------------------------------------------------------------------
\* a Set that put its new entries first
SetAddFirst(s, l, sid) == IF Pos(s, l) = 0 THEN <<[l |-> l, at |-> sid]>> \o s ELSE s

\* Set.add(wrappedListener), line 327
SetAdd(s, l, sid) == IF Pos(s, l) = 0 THEN Append(s, [l |-> l, at |-> sid]) ELSE s

\* the Map after on(n, fn) or once(n, fn) without a signal, as subscription sid:
\* lines 288-291 and 327
Subscribed(reg, sid, n, kind, fn) ==
  [reg EXCEPT ![n] = [has |-> TRUE,
                      set |-> SetAdd(@.set, WrappedListener(sid, n, kind, fn), sid)]]

\* what a config holds in the place of a listener: null (skipped, line 260) and a
\* value that is not a function (TypeError, lines 284-286)
Null == 0
NotAFunction == 0 - 1

\* on(n, fn, signal) called by the bulk form, lines 270-330, on
\* S = [reg, subs, hooks, unsub, thrown]: thrown says that the call threw
OnOne(S, n, fn, sg) ==
  LET sid == Len(S.subs) + 1
      l == IF fn = NotAFunction THEN 0 ELSE WrappedListener(sid, n, "on", fn)
      \* lines 288-291: the Set is created before the signal is looked at
      created == [S.reg EXCEPT ![n] = [has |-> TRUE, set |-> @.set]]
      fails == fn = NotAFunction \/ (sg /\ aborted)
      sub == [name |-> n, l |-> l, kind |-> "on", fn |-> fn, sig |-> sg, ok |-> ~fails,
              cfg |-> TRUE, w |-> 0]
  IN IF fn = NotAFunction
     THEN [S EXCEPT !.subs = Append(@, sub), !.thrown = TRUE]
     ELSE IF fails
     THEN [S EXCEPT !.reg = created, !.subs = Append(@, sub), !.thrown = TRUE]
     ELSE [S EXCEPT !.reg = [created EXCEPT ![n].set = SetAdd(@, l, sid)],
                    !.subs = Append(@, sub),
                    !.hooks = IF sg THEN @ \cup {sid} ELSE @,
                    !.unsub = IF sg /\ l < 0 THEN [@ EXCEPT ![fn] = sid] ELSE @]

\* on(config, signal), lines 239-268 (new AsyncEventEmitter(config) calls it, lines
\* 174-176): on(eventName, listener, signal) for each listener of the config that is
\* not null, in the order of its keys, up to the first call that throws.
\* config is the sequence of the [name, fn] it holds
RECURSIVE OnConfig(_, _, _)
OnConfig(S, config, sg) ==
  IF config = <<>> \/ S.thrown THEN S
  ELSE IF Head(config).fn = Null THEN OnConfig(S, Tail(config), sg)
  ELSE OnConfig(OnOne(S, Head(config).name, Head(config).fn, sg), Tail(config), sg)

\* the emitter before any call of on
Empty ==
  [reg |-> [n \in Names |-> NoSet], subs |-> <<>>, hooks |-> {},
   unsub |-> [f \in Fns |-> 0], thrown |-> FALSE]

\* the configs the emitter is constructed with: an array of distinct functions for
\* 'x' (at least one), for 'error' and for errorMonitor, at most one of the arrays
\* holding every function of the program; string keys come before symbol keys,
\* lines 253-256
ListenersOf(n, k) == [i \in 1..k |-> [name |-> n, fn |-> i]]
ConfigSizes ==
  {k \in [{"x", "error", errorMonitor} -> 0..Cardinality(Fns)] :
     /\ k["x"] >= 1
     /\ Cardinality({n \in DOMAIN k : k[n] = Cardinality(Fns)}) <= 1}
Configs ==
  {ListenersOf("x", k["x"]) \o ListenersOf("error", k["error"])
     \o ListenersOf(errorMonitor, k[errorMonitor]) : k \in ConfigSizes}

Init ==
  /\ listenersByName = [n \in Names |-> NoSet]
  /\ subs = <<>>
  /\ unsub = [f \in Fns |-> 0]
  /\ aborted = FALSE
  /\ abortListeners = {}
  /\ emits = <<>>
  /\ stack = <<>>
  /\ nEmits = 0
  /\ nThrows = 0
  /\ waits = <<>>

\* the calls of on made by the bulk form for the listeners of its config, line 261
\* (by the constructor, line 175)
Configured == {i \in 1..Len(subs) : subs[i].cfg}

\* the subscriptions made by wait, race and throwOnError, lines 379 and 444
Awaiting == {i \in 1..Len(subs) : subs[i].w # 0}

\* the exploration is bounded by the number of things the program does once the
\* emitter is constructed: its calls of on, once, wait, race, throwOnError and emit,
\* and the failures of its listeners
Budget ==
  Len(subs) - Cardinality(Configured) - Cardinality(Awaiting)
    + Len(waits) + nEmits + nThrows < MaxCalls

Idle == Len(stack) = 0
Top == stack[Len(stack)]
\* the listener of a call is one of the program, not the closure that wait and race
\* subscribe (lines 379-384 and 444-449), which only unsubscribes and resolves
OfProgram(call) == subs[call.at].w = 0
\* the emitter is called from the idle event loop or from a listener's synchronous part
CanCall == IF Idle THEN TRUE
           ELSE Top.t = "fn" /\ OfProgram(emits[Top.m].calls[Top.c])

----------------------------------------------------------------------------
\* on(eventName, listener, signal), lines 270-330

On(n, kind, fn, sg) ==
  /\ CanCall
  /\ Budget
  /\ LET sid == Len(subs) + 1
         l == WrappedListener(sid, n, kind, fn)
         \* lines 288-291: the Set is created before the signal is looked at
         created == [listenersByName EXCEPT ![n] = [has |-> TRUE, set |-> @.set]]
         \* line 319: signal.throwIfAborted()
         fails == sg /\ aborted
     IN /\ subs' = Append(subs, [name |-> n, l |-> l, kind |-> kind, fn |-> fn,
                                 sig |-> sg, ok |-> ~fails, cfg |-> FALSE, w |-> 0])
        /\ IF fails
           THEN /\ listenersByName' = created
                /\ UNCHANGED <<unsub, abortListeners>>
           ELSE /\ listenersByName' = [created EXCEPT ![n].set = SetAdd(@, l, sid)]
                /\ abortListeners' = IF sg THEN abortListeners \cup {sid} ELSE abortListeners
                /\ unsub' = IF sg /\ l < 0 THEN [unsub EXCEPT ![fn] = sid] ELSE unsub
  /\ UNCHANGED <<aborted, emits, stack, nEmits, nThrows, waits>>

----------------------------------------------------------------------------
\* off, lines 184-206, and the `off` closure of a subscription, line 293

BoundOff(R, sid) == OffListener(R, subs[sid].name, subs[sid].l)

\* off(eventName, listener) called with the function fn the caller passed to on
Off(R, n, fn) == OffListener(R, n, 0 - fn)

\* the values the promises of wait, race and throwOnError settle with: the data of
\* an emit, the AbortError of lines 369-372 and 431-436 (its message names the
\* identifiers), signal.reason thrown by throwIfAborted, and undefined
Data(v) == [t |-> "data", v |-> v, names |-> <<>>]
\* an AbortError of race that named only the first identifier
AbortErrorOfFirst(ns) == [t |-> "AbortError", v |-> 0, names |-> <<Head(ns)>>]
AbortErrorOf(ns) == [t |-> "AbortError", v |-> 0, names |-> ns]
Reason == [t |-> "reason", v |-> 0, names |-> <<>>]
Undefined == [t |-> "undefined", v |-> 0, names |-> <<>>]

\* resolve(eventData), lines 383 and 448; throwOnError then throws what its wait
\* resolved with, lines 401 and 410
Resolve(wt, data) ==
  IF wt.st # "pending" THEN wt
  ELSE IF wt.kind = "throwOnError" THEN [wt EXCEPT !.st = "rejected", !.val = Data(data)]
  ELSE [wt EXCEPT !.st = "resolved", !.val = Data(data)]

\* reject(new AbortError(...)), lines 368-373 and 430-437; throwOnError returns when
\* its wait rejects with an AbortError, lines 402-405
Reject(wt) ==
  IF wt.st # "pending" THEN wt
  ELSE IF wt.kind = "throwOnError" THEN [wt EXCEPT !.st = "resolved", !.val = Undefined]
  ELSE [wt EXCEPT !.st = "rejected", !.val = AbortErrorOf(wt.names)]

\* off() of wait, offs.forEach((off) => off()) of race: lines 366, 380, 429 and 445
RECURSIVE OffEach(_, _)
OffEach(R, sids) ==
  IF sids = {} THEN R
  ELSE LET sid == CHOOSE k \in sids : TRUE
       IN OffEach(BoundOff(R, sid), sids \ {sid})

\* an onAbort that rejected without unsubscribing
OnAbortKeeping(R, w) == [R EXCEPT !.waits[w] = Reject(@)]

\* onAbort of wait w, lines 365-374 and 428-438
OnAbort(R, w) ==
  [OffEach(R, R.waits[w].subs) EXCEPT !.waits[w] = Reject(@)]

\* the signal that AbortSignal.timeout(ms) makes for a wait called with a number
\* (lines 358-361, 421-424), kept in the field timer of the wait: "none" (no
\* timeout), "hooked" (the timer is pending and onAbort listens to the signal),
\* "unhooked" (the timer is pending, onAbort was removed) or "expired".
\* signal.removeEventListener('abort', onAbort), lines 381 and 447: nothing in the
\* code cancels the timer of the signal
Unhooked(timer) == IF timer = "hooked" THEN "unhooked" ELSE timer

\* a listener of race that unsubscribed only itself
RaceListenerAlone(R, sid, data) ==
  [BoundOff(R, sid) EXCEPT !.hooks = @ \ {0 - subs[sid].w},
                           !.waits[subs[sid].w] = Resolve(@, data)]

\* the listener subscribed by wait or race is called with the data of an emit,
\* lines 379-384 and 444-449
WaitListener(R, sid, data) ==
  LET w == subs[sid].w
  IN [OffEach(R, R.waits[w].subs) EXCEPT
        !.hooks = @ \ {0 - w},
        !.waits[w] = [Resolve(@, data) EXCEPT !.timer = Unhooked(@)]]

CallBoundOff(sid) ==
  /\ CanCall
  /\ sid \in 1..Len(subs) /\ subs[sid].ok
  /\ Install(BoundOff(Machine, sid))
  /\ UNCHANGED <<subs, unsub, aborted, nEmits, nThrows>>

OffEventName(n) ==
  /\ CanCall
  /\ Install(OffName(Machine, n))
  /\ UNCHANGED <<subs, unsub, aborted, nEmits, nThrows>>

OffAll ==
  /\ CanCall
  /\ Install(OffAllFrom(Machine, Names))
  /\ UNCHANGED <<subs, unsub, aborted, nEmits, nThrows>>

\* the caller's AbortSignal aborts: its 'abort' listeners (each registered once: true) run
RECURSIVE RunAbortListeners(_, _)
RunAbortListeners(R, hooked) ==
  IF hooked = {} THEN R
  ELSE LET k == CHOOSE h \in hooked : TRUE
       IN RunAbortListeners(IF k > 0 THEN BoundOff(R, k) ELSE OnAbort(R, 0 - k),
                            hooked \ {k})

Abort ==
  /\ CanCall
  /\ ~aborted
  /\ aborted' = TRUE
  /\ Install([RunAbortListeners(Machine, abortListeners) EXCEPT !.hooks = {}])
  /\ UNCHANGED <<subs, unsub, nEmits, nThrows>>

\* the arrays a key of a config holds, and the configs the program passes to on:
\* the string keys 'x' and 'error' come before the symbol key, lines 253-254
KeyConfigs ==
  [x |-> {<<>>, <<1>>, <<Null, 2>>},
   error |-> {<<>>, <<1>>, <<NotAFunction>>},
   errorMonitor |-> {<<>>, <<1>>}]
EntriesOf(n, fs) == [i \in 1..Len(fs) |-> [name |-> n, fn |-> fs[i]]]
BulkConfigs ==
  {EntriesOf("x", k["x"]) \o EntriesOf("error", k["error"])
     \o EntriesOf(errorMonitor, k[errorMonitor]) :
       k \in {c \in [Names -> UNION {KeyConfigs[n] : n \in Names}] :
                 \A n \in Names : c[n] \in KeyConfigs[n]}}

\* the program calls on(config, signal), once
OnBulk(config, sg) ==
  /\ CanCall
  /\ Budget
  /\ Configured = {}
  /\ LET S == OnConfig([reg |-> listenersByName, subs |-> subs, hooks |-> abortListeners,
                        unsub |-> unsub, thrown |-> FALSE], config, sg)
     IN /\ listenersByName' = S.reg
        /\ subs' = S.subs
        /\ abortListeners' = S.hooks
        /\ unsub' = S.unsub
  /\ UNCHANGED <<aborted, emits, stack, nEmits, nThrows, waits>>

\* the handle on(config) returned, line 267: offs.forEach((off) => off())
CallBulkOff ==
  /\ CanCall
  /\ Configured # {}
  /\ \A i \in Configured : subs[i].ok
  /\ Install(OffEach(Machine, Configured))
  /\ UNCHANGED <<subs, unsub, aborted, nEmits, nThrows>>

----------------------------------------------------------------------------
\* wait, throwOnError and race, lines 354-453

\* a wait that subscribed whatever the state of its signal
ThrowIfAbortedNever(sg) == FALSE

\* signal?.throwIfAborted(), lines 363, 396 and 426
ThrowIfAborted(sg) == sg /\ aborted

\* eventNames.map((eventName) => this.on(eventName, listener)) as subscriptions
\* sid + 1, sid + 2, ... of wait w: the Map and the records of the subscriptions
RECURSIVE OnEach(_, _, _)
OnEach(S, ns, w) ==
  IF ns = <<>> THEN S
  ELSE LET sid == Len(S.subs) + 1
           n == Head(ns)
       IN OnEach([reg |-> Subscribed(S.reg, sid, n, "wait", 0),
                  subs |-> Append(S.subs,
                             [name |-> n, l |-> WrappedListener(sid, n, "wait", 0),
                              kind |-> "wait", fn |-> 0, sig |-> FALSE, ok |-> TRUE,
                              cfg |-> FALSE, w |-> w])],
                 Tail(ns), w)

\* wait(eventName, signal), race(eventNames, signal) and throwOnError(signal), which
\* is wait('error', signal) with its outcome turned over
Wait(kind, ns, sg) ==
  /\ CanCall
  /\ Budget
  /\ LET w == Len(waits) + 1
         wt == [kind |-> kind, names |-> ns, sig |-> sg, st |-> "pending",
                val |-> Undefined, subs |-> {}, since |-> Len(emits), timer |-> "none"]
     IN IF ThrowIfAborted(sg)
        THEN /\ waits' = Append(waits, [wt EXCEPT !.st = "rejected", !.val = Reason])
             /\ UNCHANGED <<listenersByName, subs, abortListeners>>
        ELSE LET S == OnEach([reg |-> listenersByName, subs |-> subs], ns, w)
             IN /\ listenersByName' = S.reg
                /\ subs' = S.subs
                /\ abortListeners' = IF sg /\ ~aborted
                                      THEN abortListeners \cup {0 - w}
                                      ELSE abortListeners
                /\ waits' = Append(waits,
                               [wt EXCEPT !.subs = (Len(subs) + 1)..Len(S.subs)])
  /\ UNCHANGED <<unsub, aborted, emits, stack, nEmits, nThrows>>

\* wait(eventName, ms) and race(eventNames, ms): the signal is made by
\* AbortSignal.timeout(ms), is not aborted yet, and onAbort listens to it
WaitTimeout(kind, ns) ==
  /\ CanCall
  /\ Budget
  /\ LET w == Len(waits) + 1
         S == OnEach([reg |-> listenersByName, subs |-> subs], ns, w)
     IN /\ listenersByName' = S.reg
        /\ subs' = S.subs
        /\ waits' = Append(waits,
                       [kind |-> kind, names |-> ns, sig |-> FALSE, st |-> "pending",
                        val |-> Undefined, subs |-> (Len(subs) + 1)..Len(S.subs),
                        since |-> Len(emits), timer |-> "hooked"])
  /\ UNCHANGED <<unsub, aborted, abortListeners, emits, stack, nEmits, nThrows>>

\* the timeout of wait w expires: its signal aborts and calls onAbort if it still
\* listens
Expire(w) ==
  /\ Idle
  /\ w \in 1..Len(waits)
  /\ waits[w].timer \in {"hooked", "unhooked"}
  /\ Install([(IF waits[w].timer = "hooked" THEN OnAbort(Machine, w) ELSE Machine)
                EXCEPT !.waits[w].timer = "expired"])
  /\ UNCHANGED <<subs, unsub, aborted, nEmits, nThrows>>

----------------------------------------------------------------------------
\* emit, lines 475-485

\* an emit that did not await the promises of its listeners
PromiseAllNotAwaited(e) ==
  IF \E i \in 1..Len(e.calls) : e.calls[i].ph = "fail"
  THEN [e EXCEPT !.st = "rejected"]
  ELSE [e EXCEPT !.st = "resolved"]

\* Promise.all over the calls made, once Array.from has returned
PromiseAll(e) ==
  IF \E i \in 1..Len(e.calls) : e.calls[i].ph = "fail"
  THEN LET i == CHOOSE k \in 1..Len(e.calls) :
                  /\ e.calls[k].ph = "fail"
                  /\ \A j \in 1..(k - 1) : e.calls[j].ph # "fail"
       IN [e EXCEPT !.st = "rejected", !.val = e.calls[i].val]
  ELSE IF \A i \in 1..Len(e.calls) : e.calls[i].ph = "ok"
  THEN [e EXCEPT !.st = "resolved"]
  ELSE [e EXCEPT !.st = "pending"]

\* Promise.race in the place of Promise.all: the first call to settle settles emit
FinishRace(e, c, ph, v) ==
  LET e1 == [e EXCEPT !.calls[c].ph = ph, !.calls[c].val = v]
  IN IF e1.st # "pending" THEN e1
     ELSE IF ph = "fail" THEN [e1 EXCEPT !.st = "rejected", !.val = v]
     ELSE [e1 EXCEPT !.st = "resolved"]

\* call c of emit e settles: the promise of emit follows Promise.all
Finish(e, c, ph, v) ==
  LET e1 == [e EXCEPT !.calls[c].ph = ph, !.calls[c].val = v]
  IN IF e1.st # "pending" THEN e1
     ELSE IF ph = "fail" THEN [e1 EXCEPT !.st = "rejected", !.val = v]
     ELSE PromiseAll(e1)

\* the call emit(n, data): lines 479-480, then Array.from starts if the Set is not empty
StartEmit(R, n, data) ==
  LET m == Len(R.emits) + 1
      size == Size(R.reg, n)
  IN IF size = 0
     THEN [R EXCEPT !.emits = Append(@, NewEmit(n, data, "resolved", <<>>))]
     ELSE [R EXCEPT !.emits = Append(@, NewEmit(n, data, "iter",
                                     [i \in 1..size |-> R.reg[n].set[i].at])),
                    !.stack = Append(@, EmitFrame(m, n))]

Emit(n) ==
  /\ CanCall
  /\ Budget
  /\ nEmits' = nEmits + 1
  /\ Install(StartEmit(Machine, n, Len(emits) + 1))
  /\ UNCHANGED <<subs, unsub, aborted, nThrows>>

\* an emit that iterated over a copy of the Set made when it began
SourceCopy(f) ==
  [i \in 1..Len(emits[f.m].snap) |->
     [l |-> subs[emits[f.m].snap[i]].l, at |-> emits[f.m].snap[i]]]

\* what Array.from(listeners, ...) of a frame still iterates: the live Set
Source(f) == IF f.det THEN <<>> ELSE listenersByName[f.name].set

\* a closure of once that did not call off()
OnceOffMissing(R, sid) == R

\* once, lines 343-347: the closure calls off() before the listener
OnceOff(R, sid) == BoundOff(R, sid)

\* Array.from calls the next entry of the Set: line 482
Invoke ==
  /\ ~Idle
  /\ Top.t = "emit"
  /\ Top.idx < Len(Source(Top))
  /\ LET f == Top
         m == f.m
         item == Source(f)[f.idx + 1]
         c == Len(emits[m].calls) + 1
         once == item.l > 0 /\ subs[item.l].kind = "once"
         call == NewCall(item, f.name \notin Reserved, once, item.at \in emits[m].removed)
         R == [Machine EXCEPT
                 !.stack = Front(stack) \o <<[f EXCEPT !.idx = @ + 1], FnFrame(m, c)>>,
                 !.emits[m].calls = Append(@, call)]
     IN Install(IF once THEN OnceOff(R, item.l)
                ELSE IF OfProgram(call) THEN R
                ELSE WaitListener(R, item.at, emits[m].data))
  /\ UNCHANGED <<subs, unsub, aborted, nEmits, nThrows>>

\* Array.from has visited the whole Set: emit awaits Promise.all, lines 481-483
EndIteration ==
  /\ ~Idle
  /\ Top.t = "emit"
  /\ Top.idx >= Len(Source(Top))
  /\ stack' = Front(stack)
  /\ emits' = [emits EXCEPT ![Top.m] = PromiseAll(@)]
  /\ UNCHANGED <<listenersByName, subs, unsub, aborted, abortListeners, nEmits, nThrows, waits>>

----------------------------------------------------------------------------
\* the listeners and the wrapper of lines 298-311

\* the catch block up to its first await: await this.emit(errorMonitor, error), line 303.
\* With no errorMonitor listener that emit does nothing and the wrapper awaits a
\* promise that resolves (aw = 0): no record is kept for it.
Catch(R, m, c, v) ==
  LET watched == Size(R.reg, errorMonitor) > 0
      R1 == [R EXCEPT !.emits[m].calls[c].ph = "mon",
                      !.emits[m].calls[c].raised = v,
                      !.emits[m].calls[c].aw = IF watched THEN Len(R.emits) + 1 ELSE 0]
  IN IF watched THEN StartEmit(R1, errorMonitor, v) ELSE R1

\* the listener returns (or returns a settled promise)
Return ==
  /\ ~Idle
  /\ Top.t = "fn"
  /\ stack' = Front(stack)
  /\ emits' = [emits EXCEPT ![Top.m] = Finish(@, Top.c, "ok", 0)]
  /\ UNCHANGED <<listenersByName, subs, unsub, aborted, abortListeners, nEmits, nThrows, waits>>

\* the listener returns a pending promise
Suspend ==
  /\ ~Idle
  /\ Top.t = "fn"
  /\ OfProgram(emits[Top.m].calls[Top.c])
  /\ stack' = Front(stack)
  /\ emits' = [emits EXCEPT ![Top.m].calls[Top.c].ph = "pend"]
  /\ UNCHANGED <<listenersByName, subs, unsub, aborted, abortListeners, nEmits, nThrows, waits>>

\* the listener throws synchronously.  Inside the wrapper the catch block runs at
\* once; a function stored unwrapped throws through Array.from and out of emit, whose
\* promise rejects.  (The closure of once is async: its listener's throw is a
\* rejection, which Suspend and Settle cover.)
Throw ==
  /\ ~Idle
  /\ Top.t = "fn"
  /\ ~emits[Top.m].calls[Top.c].once
  /\ OfProgram(emits[Top.m].calls[Top.c])
  /\ Budget
  /\ nThrows' = nThrows + 1
  /\ LET m == Top.m
         c == Top.c
         v == Err(m, c)
     IN IF emits[m].calls[c].wrapped
        THEN Install(Catch([Machine EXCEPT !.stack = Front(stack)], m, c, v))
        ELSE Install([Machine EXCEPT
                        !.stack = SubSeq(stack, 1, Len(stack) - 2),
                        !.emits[m].calls[c].ph = "fail",
                        !.emits[m].calls[c].raised = v,
                        !.emits[m].calls[c].val = v,
                        !.emits[m].st = "rejected",
                        !.emits[m].val = v])
  /\ UNCHANGED <<subs, unsub, aborted, nEmits>>

\* a pending listener promise settles
Settle(m, c, ok) ==
  /\ Idle
  /\ m \in 1..Len(emits)
  /\ c \in 1..Len(emits[m].calls)
  /\ emits[m].calls[c].ph = "pend"
  /\ IF ok
     THEN /\ emits' = [emits EXCEPT ![m] = Finish(@, c, "ok", 0)]
          /\ UNCHANGED <<listenersByName, abortListeners, stack, nThrows, waits>>
     ELSE /\ Budget
          /\ nThrows' = nThrows + 1
          /\ IF emits[m].calls[c].wrapped
             THEN Install(Catch(Machine, m, c, Err(m, c)))
             ELSE Install([Machine EXCEPT
                             !.emits[m] = Finish([@ EXCEPT !.calls[c].raised = Err(m, c)],
                                                 c, "fail", Err(m, c))])
  /\ UNCHANGED <<subs, unsub, aborted, nEmits>>

\* the state of the promise a suspended wrapper awaits
AwaitedState(call) == IF call.aw = 0 THEN "resolved" ELSE emits[call.aw].st

\* the wrapper continues after an await of its catch block, lines 303-309
Resume(m, c) ==
  /\ Idle
  /\ m \in 1..Len(emits)
  /\ c \in 1..Len(emits[m].calls)
  /\ LET call == emits[m].calls[c]
     IN /\ call.ph \in {"mon", "err"}
        /\ AwaitedState(call) \in {"resolved", "rejected"}
        /\ IF AwaitedState(call) = "rejected"
           THEN Install([Machine EXCEPT !.emits[m] = Finish(@, c, "fail", emits[call.aw].val)])
           ELSE IF call.ph = "err"
           THEN Install([Machine EXCEPT !.emits[m] = Finish(@, c, "ok", 0)])
           ELSE IF Size(listenersByName, "error") > 0
           THEN Install(StartEmit([Machine EXCEPT !.emits[m].calls[c].ph = "err",
                                                  !.emits[m].calls[c].aw = Len(emits) + 1],
                                  "error", call.raised))
           ELSE Install([Machine EXCEPT !.emits[m] = Finish(@, c, "fail", call.raised)])
  /\ UNCHANGED <<subs, unsub, aborted, nEmits, nThrows>>

----------------------------------------------------------------------------
\* The legacy EventEmitter, lines 11-99: its Map holds the listeners as they are
\* given, emit dispatches over a copy of the Set and emitSerial over the Set itself

\* what on stores in the Set, line 46: the caller's function; once passes a fresh
\* wrapper, lines 52-58
LegacyListener(sid, kind, fn) == IF kind = "on" THEN 0 - fn ELSE sid

\* on(eventName, eventListener) and once(eventName, eventListener), lines 45-59
LegacyOn(n, kind, fn) ==
  /\ CanCall
  /\ Budget
  /\ LET sid == Len(subs) + 1
         l == LegacyListener(sid, kind, fn)
     IN /\ subs' = Append(subs, [name |-> n, l |-> l, kind |-> kind, fn |-> fn,
                                 sig |-> FALSE, ok |-> TRUE, cfg |-> FALSE, w |-> 0])
        /\ listenersByName' = [listenersByName EXCEPT
                                 ![n] = [has |-> TRUE, set |-> SetAdd(@.set, l, sid)]]
  /\ UNCHANGED <<unsub, aborted, abortListeners, emits, stack, nEmits, nThrows, waits>>

\* the Set iterator of a running emitSerial keeps its place when an entry before it
\* is deleted; once the emptied Set has left the Map it sees an empty Set for ever
AdjustSerial(e, n, p, deleted) ==
  IF e.st = "serial" /\ e.name = n /\ ~e.det
  THEN [e EXCEPT !.idx = IF p <= @ THEN @ - 1 ELSE @, !.det = deleted]
  ELSE e

\* off(eventName, eventListener), lines 25-39
LegacyOff(R, n, l) ==
  LET p == IF Has(R.reg, n) THEN Pos(R.reg[n].set, l) ELSE 0
  IN IF p = 0 THEN R
     ELSE LET s == Without(R.reg[n].set, p)
              deleted == Len(s) = 0
          IN [R EXCEPT !.reg = IF deleted
                               THEN [R.reg EXCEPT ![n] = NoSet]
                               ELSE [R.reg EXCEPT ![n].set = s],
                       !.emits = [m \in DOMAIN R.emits |->
                                    AdjustSerial(R.emits[m], n, p, deleted)]]

\* the handle of a subscription, line 48: this.off.bind(this, eventName, eventListener)
CallLegacyOff(sid) ==
  /\ CanCall
  /\ sid \in 1..Len(subs)
  /\ Install(LegacyOff(Machine, subs[sid].name, subs[sid].l))
  /\ UNCHANGED <<subs, unsub, aborted, nEmits, nThrows>>

\* a call of a listener by emit or emitSerial; the wrapper of once calls off first,
\* line 53.  The call is appended to emit m and its synchronous part is pushed
LegacyCall(R, m, item) ==
  LET c == Len(R.emits[m].calls) + 1
      once == item.l > 0
      R1 == [R EXCEPT !.emits[m].calls = Append(@, NewCall(item, FALSE, once, FALSE)),
                      !.stack = Append(@, FnFrame(m, c))]
  IN IF once THEN LegacyOff(R1, R.emits[m].name, item.l) ELSE R1

\* [...this.getEventListenerSet(eventName)], line 88: the copy emit m iterates
LegacyCopy(m) ==
  [i \in 1..Len(emits[m].snap) |->
     [l |-> subs[emits[m].snap[i]].l, at |-> emits[m].snap[i]]]

CopyFrame(m, n) == [t |-> "copy", m |-> m, c |-> 0, name |-> n, idx |-> 0, det |-> FALSE]

\* emit(eventName, eventData), lines 86-90
LegacyEmit(n) ==
  /\ CanCall
  /\ Budget
  /\ nEmits' = nEmits + 1
  /\ LET m == Len(emits) + 1
         size == Size(listenersByName, n)
     IN IF ~Has(listenersByName, n)
        THEN /\ emits' = Append(emits, NewEmit(n, m, "resolved", <<>>))
             /\ stack' = stack
        ELSE /\ emits' = Append(emits, NewEmit(n, m, "iter",
                                   [i \in 1..size |-> listenersByName[n].set[i].at]))
             /\ stack' = Append(stack, CopyFrame(m, n))
  /\ UNCHANGED <<listenersByName, subs, unsub, aborted, abortListeners, nThrows, waits>>

\* map calls the next listener of the copy, line 88
LegacyInvoke ==
  /\ ~Idle
  /\ Top.t = "copy"
  /\ Top.idx < Len(LegacyCopy(Top.m))
  /\ LET f == Top
         R == [Machine EXCEPT !.stack = Front(stack) \o <<[f EXCEPT !.idx = @ + 1]>>]
     IN Install(LegacyCall(R, f.m, LegacyCopy(f.m)[f.idx + 1]))
  /\ UNCHANGED <<subs, unsub, aborted, nEmits, nThrows>>

\* map has visited the whole copy: emit awaits Promise.all, line 88
LegacyEndIteration ==
  /\ ~Idle
  /\ Top.t = "copy"
  /\ Top.idx >= Len(LegacyCopy(Top.m))
  /\ stack' = Front(stack)
  /\ emits' = [emits EXCEPT ![Top.m] = PromiseAll(@)]
  /\ UNCHANGED <<listenersByName, subs, unsub, aborted, abortListeners, nEmits, nThrows, waits>>

\* a listener called by the legacy emitter throws: inside the async arrow of emit
\* (line 88), the async wrapper of once (line 52) and the async emitSerial (line 95)
\* its throw is the rejection of a promise
LegacyThrow ==
  /\ ~Idle
  /\ Top.t = "fn"
  /\ Budget
  /\ nThrows' = nThrows + 1
  /\ stack' = Front(stack)
  /\ emits' = [emits EXCEPT
                 ![Top.m] = Finish([@ EXCEPT !.calls[Top.c].raised = Err(Top.m, Top.c)],
                                   Top.c, "fail", Err(Top.m, Top.c))]
  /\ UNCHANGED <<listenersByName, subs, unsub, aborted, abortListeners, nEmits, waits>>

\* a listener called by the legacy emitter returns a pending promise
LegacySuspend ==
  /\ ~Idle
  /\ Top.t = "fn"
  /\ stack' = Front(stack)
  /\ emits' = [emits EXCEPT ![Top.m].calls[Top.c].ph = "pend",
                            ![Top.m].calls[Top.c].async = TRUE]
  /\ UNCHANGED <<listenersByName, subs, unsub, aborted, abortListeners, nEmits, nThrows, waits>>

\* the for...of loop of emitSerial m takes the next listener of the Set and calls
\* it, or ends: lines 94-96
SerialStep(R, m) ==
  LET e == R.emits[m]
      src == IF e.det THEN <<>> ELSE R.reg[e.name].set
  IN IF e.idx < Len(src)
     THEN LegacyCall([R EXCEPT !.emits[m].idx = @ + 1], m, src[e.idx + 1])
     ELSE [R EXCEPT !.emits[m].st = "resolved"]

\* an emitSerial that went on with the next listener after a failure
SerialGoesOn(R, m, v) == SerialStep(R, m)

\* the awaited listener failed: the async function emitSerial rejects, line 95
SerialRejects(R, m, v) == [R EXCEPT !.emits[m].st = "rejected", !.emits[m].val = v]

\* an await that let the loop go on while the listener's promise is pending
AwaitedAtOnce(call) == call.ph \in {"ok", "fail", "pend"}

\* await eventListener(eventData), line 95: the promise of the call has settled
Awaited(call) == call.ph \in {"ok", "fail"}

\* emitSerial(eventName, eventData), lines 92-98: the first listener is called
\* before emitSerial returns its promise
EmitSerial(n) ==
  /\ CanCall
  /\ Budget
  /\ nEmits' = nEmits + 1
  /\ LET m == Len(emits) + 1
         size == Size(listenersByName, n)
     IN IF ~Has(listenersByName, n)
        THEN Install([Machine EXCEPT
                        !.emits = Append(@, [NewEmit(n, m, "resolved", <<>>)
                                               EXCEPT !.serial = TRUE])])
        ELSE Install(SerialStep(
               [Machine EXCEPT
                  !.emits = Append(@, [NewEmit(n, m, "serial",
                                         [i \in 1..size |-> listenersByName[n].set[i].at])
                                       EXCEPT !.serial = TRUE])], m))
  /\ UNCHANGED <<subs, unsub, aborted, nThrows>>

\* emitSerial m continues after its await, line 95
AfterAwait(m) ==
  /\ Idle
  /\ m \in 1..Len(emits)
  /\ emits[m].st = "serial"
  /\ LET last == Last(emits[m].calls)
     IN /\ Awaited(last)
        /\ Install(IF last.ph = "fail"
                   THEN SerialRejects(Machine, m, last.val)
                   ELSE SerialStep(Machine, m))
  /\ UNCHANGED <<subs, unsub, aborted, nEmits, nThrows>>

----------------------------------------------------------------------------
\* The program subscribes to and emits 'x' and 'error', without signals
Next ==
  \/ \E n \in {"x", "error"}, kind \in {"on", "once"} : On(n, kind, 1, FALSE)
  \/ \E sid \in 1..MaxCalls : CallBoundOff(sid)
  \/ \E n \in {"x", "error"} : OffEventName(n)
  \/ OffAll
  \/ \E n \in {"x", "error"} : Emit(n)
  \/ Invoke
  \/ EndIteration
  \/ Return
  \/ Suspend
  \/ Throw
  \/ \E m \in 1..Len(emits), c \in 1..MaxCalls, ok \in BOOLEAN : Settle(m, c, ok)
  \/ \E m \in 1..Len(emits), c \in 1..MaxCalls : Resume(m, c)

Spec == Init /\ [][Next]_vars

\* The program subscribes with and without its AbortSignal, which it may abort;
\* its listeners run synchronously
NextSignal ==
  \/ \E n \in {"x", "error"}, sg \in BOOLEAN : On(n, "on", 1, sg)
  \/ \E sid \in 1..MaxCalls : CallBoundOff(sid)
  \/ \E n \in {"x", "error"} : OffEventName(n)
  \/ Abort
  \/ \E n \in {"x", "error"} : Emit(n)
  \/ Invoke
  \/ EndIteration
  \/ Return

SpecSignal == Init /\ [][NextSignal]_vars

\* The listeners of the program do not call the emitter: every call comes from the
\* idle event loop
NextQuiet ==
  \/ \E n \in {"x", "error"}, kind \in {"on", "once"} : Idle /\ On(n, kind, 1, FALSE)
  \/ \E sid \in 1..MaxCalls : Idle /\ CallBoundOff(sid)
  \/ \E n \in {"x", "error"} : Idle /\ Emit(n)
  \/ Invoke
  \/ EndIteration
  \/ Return
  \/ Suspend
  \/ Throw
  \/ \E m \in 1..Len(emits), c \in 1..MaxCalls, ok \in BOOLEAN : Settle(m, c, ok)
  \/ \E m \in 1..Len(emits), c \in 1..MaxCalls : Resume(m, c)

SpecQuiet == Init /\ [][NextQuiet]_vars

\* The emitter is constructed with a config that may hold listeners of 'error' and
\* of errorMonitor; the program emits 'x' from the idle event loop
InitMonitor ==
  \E config \in Configs :
    LET S == OnConfig(Empty, config, FALSE)
    IN /\ listenersByName = S.reg
       /\ subs = S.subs
       /\ unsub = [f \in Fns |-> 0]
       /\ aborted = FALSE
       /\ abortListeners = {}
       /\ emits = <<>>
       /\ stack = <<>>
       /\ nEmits = 0
       /\ nThrows = 0
       /\ waits = <<>>

NextMonitor ==
  \/ Idle /\ Emit("x")
  \/ Invoke
  \/ EndIteration
  \/ Return
  \/ Suspend
  \/ Throw
  \/ \E m \in 1..Len(emits), c \in 1..MaxCalls, ok \in BOOLEAN : Settle(m, c, ok)
  \/ \E m \in 1..Len(emits), c \in 1..MaxCalls : Resume(m, c)

SpecMonitor == InitMonitor /\ [][NextMonitor]_vars

\* The program waits for 'x', for 'error' (throwOnError) and for both (race), with or
\* without its AbortSignal, which it may abort; its listeners run synchronously and
\* may call the emitter
NextWait ==
  \/ \E n \in {"x", "error"} : On(n, "on", 1, FALSE)
  \/ \E sg \in BOOLEAN : Wait("wait", <<"x">>, sg)
  \/ \E sg \in BOOLEAN : Wait("race", <<"x", "error">>, sg)
  \/ \E sg \in BOOLEAN : Wait("throwOnError", <<"error">>, sg)
  \/ Abort
  \/ \E n \in {"x", "error"} : Emit(n)
  \/ Invoke
  \/ EndIteration
  \/ Return
  \/ Throw
  \/ \E m \in 1..Len(emits), c \in 1..MaxCalls : Resume(m, c)

SpecWait == Init /\ [][NextWait]_vars

\* The program subscribes one function to any identifier, with or without its
\* AbortSignal, calls the handles, aborts the signal and emits; its listeners run
\* synchronously
NextShared ==
  \/ \E n \in Names, sg \in BOOLEAN : On(n, "on", 1, sg)
  \/ \E sid \in 1..MaxCalls : CallBoundOff(sid)
  \/ Abort
  \/ \E n \in Names : Emit(n)
  \/ Invoke
  \/ EndIteration
  \/ Return

\* The program subscribes to 'x', waits for 'x' and races 'x' and 'error' with a
\* timeout, and emits; the timeouts expire at any moment; its listeners run
\* synchronously and may call the emitter
NextTimeout ==
  \/ On("x", "on", 1, FALSE)
  \/ WaitTimeout("wait", <<"x">>)
  \/ WaitTimeout("race", <<"x", "error">>)
  \/ \E w \in 1..MaxCalls : Expire(w)
  \/ \E n \in {"x", "error"} : Emit(n)
  \/ Invoke
  \/ EndIteration
  \/ Return

SpecTimeout == Init /\ [][NextTimeout]_vars

SpecShared == Init /\ [][NextShared]_vars

\* The program uses the legacy EventEmitter: it subscribes to 'x' with on and once,
\* calls the handles and emits 'x' serially; a listener may call the emitter, return,
\* return a promise or throw
NextSerial ==
  \/ \E kind \in {"on", "once"} : LegacyOn("x", kind, 1)
  \/ \E sid \in 1..MaxCalls : CallLegacyOff(sid)
  \/ EmitSerial("x")
  \/ \E m \in 1..Len(emits) : AfterAwait(m)
  \/ Return
  \/ LegacySuspend
  \/ LegacyThrow
  \/ \E m \in 1..Len(emits), c \in 1..MaxCalls, ok \in BOOLEAN : Settle(m, c, ok)

SpecSerial == Init /\ [][NextSerial]_vars

\* The program uses the legacy EventEmitter: it subscribes to 'x' with on and once,
\* calls the handles and emits 'x'; its listeners run synchronously and may call the
\* emitter
NextLegacy ==
  \/ \E kind \in {"on", "once"} : LegacyOn("x", kind, 1)
  \/ \E sid \in 1..MaxCalls : CallLegacyOff(sid)
  \/ LegacyEmit("x")
  \/ LegacyInvoke
  \/ LegacyEndIteration
  \/ Return
  \/ LegacyThrow

SpecLegacy == Init /\ [][NextLegacy]_vars

\* The program subscribes a listener to 'error' and, once, the listeners of a config
\* with on(config, signal), calls the handle of the config, aborts the signal and
\* emits; its listeners run synchronously
NextBulk ==
  \/ On("error", "on", 1, FALSE)
  \/ \E config \in BulkConfigs, sg \in BOOLEAN : OnBulk(config, sg)
  \/ CallBulkOff
  \/ Abort
  \/ \E n \in {"x", "error"} : Emit(n)
  \/ Invoke
  \/ EndIteration
  \/ Return

SpecBulk == Init /\ [][NextBulk]_vars

----------------------------------------------------------------------------
\* What the claims speak of

Emitted == 1..Len(emits)
CallsOf(m) == 1..Len(emits[m].calls)
\* Array.from has returned (or thrown): the dispatch of emit m is over
Dispatched(m) == emits[m].st # "iter"
\* the subscriptions in the Set when emit m began
Snap(m) == {emits[m].snap[i] : i \in 1..Len(emits[m].snap)}
\* the calls emit m made of subscription a
CallsOfSub(m, a) == {c \in CallsOf(m) : emits[m].calls[c].at = a}
\* no listener called by emit m raised anything
NoFailure(m) == \A c \in CallsOf(m) : emits[m].calls[c].raised = 0
\* every listener in the Set when emit m began was subscribed with once
AllOnce(m) ==
  /\ emits[m].snap # <<>>
  /\ \A a \in Snap(m) : subs[a].kind = "once"

\* C1: no identifier is mapped to an empty listener collection: every identifier
\* eventNames() returns has eventListenerCount >= 1.
C1_NoEmptyListenerSet ==
  \A n \in Keys(listenersByName) : Size(listenersByName, n) >= 1

\* C2: when no listener fails, emit resolves only after every listener registered
\* for the identifier (and not removed during the dispatch) was called and has run
\* to completion.
C2_ResolvesAfterListenersCompleted ==
  \A m \in Emitted :
    (emits[m].st = "resolved" /\ NoFailure(m)) =>
      /\ \A c \in CallsOf(m) : emits[m].calls[c].ph = "ok"
      /\ \A a \in Snap(m) \ emits[m].removed : CallsOfSub(m, a) # {}

C2_Witness ==
  \E m \in Emitted :
    /\ emits[m].st = "resolved"
    /\ NoFailure(m)
    /\ Len(emits[m].calls) >= 2

\* C3 as claimed: when the promise of emit settles, resolved or rejected, no listener
\* call it started is still pending.
C3_SettlesAfterEveryCallSettled ==
  \A m \in Emitted :
    emits[m].st \in {"resolved", "rejected"} =>
      \A c \in CallsOf(m) : emits[m].calls[c].ph \in {"ok", "fail"}

\* C3 as amended: emit resolves only once every listener call it started has settled
\* successfully, and rejects only once one of them has failed, with the value of that
\* failure; other calls may then still be pending.
C3_SettlesAsPromiseAll ==
  \A m \in Emitted :
    /\ emits[m].st = "resolved" =>
         \A c \in CallsOf(m) : emits[m].calls[c].ph = "ok"
    /\ emits[m].st = "rejected" =>
         \E c \in CallsOf(m) :
           emits[m].calls[c].ph = "fail" /\ emits[m].calls[c].val = emits[m].val

C3_Witness ==
  \E m \in Emitted :
    /\ emits[m].st = "rejected"
    /\ \E c \in CallsOf(m) : emits[m].calls[c].ph = "pend"

\* C4: the listeners one emit calls are started in the order in which their
\* subscriptions were registered.
C4_StartedInRegistrationOrder ==
  \A m \in Emitted : \A i, j \in CallsOf(m) :
    i < j => emits[m].calls[i].at < emits[m].calls[j].at

C4_Witness ==
  \E m \in Emitted : Dispatched(m) /\ Len(emits[m].calls) >= 2

\* C5: when a listener called by emit throws or rejects, every other listener
\* registered for the identifier at that time is still called, for every identifier
\* and also when the listener fails synchronously.
C5_OtherListenersStillCalled ==
  \A m \in Emitted :
    (Dispatched(m) /\ ~NoFailure(m)) =>
      \A a \in Snap(m) \ emits[m].removed : CallsOfSub(m, a) # {}

\* C6: a subscription added to the identifier while emit is dispatching is not
\* called by that emit.
C6_AddedDuringDispatchNotCalled ==
  \A m \in Emitted : \A c \in CallsOf(m) : emits[m].calls[c].at \in Snap(m)

\* C7: a subscription removed (by its handle, by off or by the signal) while emit is
\* dispatching, before its listener was started, is not called by that emit.
C7_RemovedBeforeStartNotCalled ==
  \A m \in Emitted : \A c \in CallsOf(m) : ~emits[m].calls[c].stale

C7_Witness ==
  \E m \in Emitted : \E a \in Snap(m) \cap emits[m].removed :
    /\ Dispatched(m)
    /\ CallsOfSub(m, a) = {}
    /\ subs[a].sig
    /\ aborted

\* C8: when a listener unsubscribes itself or another listener of the identifier
\* during the dispatch, every other subscription that was registered when emit began
\* and is not itself removed is called exactly once by that emit.
C8_OthersCalledExactlyOnce ==
  \A m \in Emitted :
    (Dispatched(m) /\ emits[m].removed # {}) =>
      \A a \in Snap(m) \ emits[m].removed : Cardinality(CallsOfSub(m, a)) = 1

\* C9: a listener subscribed with once is called at most once, over all emits.
C9_OnceCalledAtMostOnce ==
  \A sid \in 1..Len(subs) :
    subs[sid].kind = "once" =>
      Cardinality({mc \in Emitted \X (1..MaxCalls) :
                     /\ mc[2] \in CallsOf(mc[1])
                     /\ emits[mc[1]].calls[mc[2]].l = sid}) <= 1

\* an emit of the identifier made from inside a listener, while the outer emit is
\* dispatching, called the once listener that was in the Set of the outer emit
C9_Witness ==
  \E sid \in 1..Len(subs) : \E m1, m2 \in Emitted :
    /\ subs[sid].kind = "once"
    /\ m1 < m2
    /\ emits[m1].name = emits[m2].name
    /\ emits[m1].st = "iter"
    /\ Dispatched(m2)
    /\ sid \in Snap(m1)
    /\ CallsOfSub(m2, sid) # {}

\* C10: with k listeners subscribed with once and no other listener of the
\* identifier, the first emit calls each of them exactly once and leaves the
\* identifier out of eventNames(); an emit of an identifier that has no listener
\* calls nothing and leaves eventNames() unchanged.
C10_EachCalledOnce ==
  \A m \in Emitted :
    (Dispatched(m) /\ AllOnce(m)) =>
      /\ Len(emits[m].calls) = Len(emits[m].snap)
      /\ \A c \in CallsOf(m) : emits[m].calls[c].at = emits[m].snap[c]

C10_Step ==
  /\ \A m \in Emitted :
       (emits[m].st = "iter" /\ emits'[m].st # "iter" /\ AllOnce(m)) =>
         emits[m].name \notin Keys(listenersByName')
  /\ (Len(emits') = Len(emits) + 1 /\ Size(listenersByName, emits'[Len(emits')].name) = 0) =>
       /\ emits'[Len(emits')].st = "resolved"
       /\ emits'[Len(emits')].calls = <<>>
       /\ Keys(listenersByName') = Keys(listenersByName)

C10_OnceThenNothing == [](C10_EachCalledOnce) /\ [][C10_Step]_vars

C10_Witness ==
  \E m1, m2 \in Emitted :
    /\ m1 < m2
    /\ emits[m1].name = emits[m2].name
    /\ AllOnce(m1)
    /\ Len(emits[m1].snap) = 2
    /\ emits[m1].st = "resolved"
    /\ emits[m2].snap = <<>>
    /\ emits[m2].st = "resolved"

\* subscription i is in the registry: the Set of its name holds the entry its call
\* of on or once added
IsRegistered(reg, i) ==
  \E k \in 1..Len(reg[subs[i].name].set) : reg[subs[i].name].set[k].at = i

\* the entries of the Sets of the registry, as <<name, subscription>>
Entries(reg) ==
  UNION {{<<n, reg[n].set[k].at>> : k \in 1..Len(reg[n].set)} : n \in Names}

\* C11: off(e, L) with the listener L the caller passed to on(e, L) removes exactly
\* that listener: eventListenerCount(e) is one less than before, L is no longer in
\* the Set that emit(e) calls, and e leaves eventNames() when no listener is left.
C11_OffRemovesPassedListener ==
  \A i \in 1..Len(subs) :
    (CanCall /\ subs[i].ok /\ subs[i].kind = "on" /\ IsRegistered(listenersByName, i)) =>
      LET n == subs[i].name
          R == Off(Machine, n, subs[i].fn)
      IN /\ Size(R.reg, n) = Size(listenersByName, n) - 1
         /\ ~IsRegistered(R.reg, i)
         /\ Size(R.reg, n) = 0 => n \notin Keys(R.reg)

\* C12: off(e) removes all listeners of e (eventListenerCount(e) = 0 and e is not in
\* eventNames()) and leaves the listeners of every other identifier unchanged, in
\* every reachable state of the registry.
C12_OffNameRemovesAll ==
  \A n \in Names :
    CanCall =>
      LET R == OffName(Machine, n)
      IN /\ Size(R.reg, n) = 0
         /\ n \notin Keys(R.reg)
         /\ \A k \in Names \ {n} : R.reg[k] = listenersByName[k]

\* C13: off() clears the whole registry: in every reachable state, eventNames() is
\* empty when off() returns.
C13_OffClearsRegistry ==
  CanCall => Keys(OffAllFrom(Machine, Names).reg) = {}

\* C14: the handle returned by on or once removes exactly the subscription of its
\* call: eventListenerCount(e) drops by one if that subscription is registered, e
\* leaves eventNames() only when it was the last listener, and every other
\* subscription, of the same e or of another identifier, stays registered.
C14_HandleRemovesOwnSubscription ==
  \A i \in 1..Len(subs) :
    (CanCall /\ subs[i].ok) =>
      LET n == subs[i].name
          R == BoundOff(Machine, i)
      IN /\ IsRegistered(listenersByName, i) =>
              /\ Size(R.reg, n) = Size(listenersByName, n) - 1
              /\ n \in Keys(R.reg) <=> Size(R.reg, n) > 0
         /\ (Entries(listenersByName) \ {<<n, i>>}) \subseteq Entries(R.reg)

\* C15: a handle is idempotent: once it has been invoked, invoking it again changes
\* nothing in the registry, whatever was called in between; in particular when a
\* call of on or once was made in between, the second invocation does not remove the
\* subscription of that call.
C15_HandleIdempotent ==
  \A i \in 1..Len(subs) :
    (CanCall /\ subs[i].ok) =>
      \A n \in Names, kind \in {"on", "once"}, fn \in Fns :
        LET first == BoundOff(Machine, i)
            between == [first EXCEPT !.reg = Subscribed(@, Len(subs) + 1, n, kind, fn)]
            second == BoundOff(between, i)
        IN second.reg = between.reg

\* the promise of emit m has settled
Settled(m) == emits[m].st \in {"resolved", "rejected"}
\* the calls of emit m whose listener failed
Failed(m) == {c \in CallsOf(m) : emits[m].calls[c].raised # 0}
\* the emits of identifier n that deliver the value v
Deliveries(n, v) == {d \in Emitted : emits[d].name = n /\ emits[d].data = v}
\* emit d has called every listener that was in the Set when it began
CalledAll(d) == \A a \in Snap(d) : CallsOfSub(d, a) # {}

\* C16: when a listener of 'x' fails during emit('x') and 'error' has no listener,
\* the promise of emit rejects with exactly the value the listener raised.
C16_RejectsWithRaisedValue ==
  \A m \in Emitted :
    (/\ emits[m].name = "x"
     /\ Settled(m)
     /\ Failed(m) # {}
     /\ \A i \in 1..Len(subs) : subs[i].name # "error") =>
      /\ emits[m].st = "rejected"
      /\ \E c \in Failed(m) : emits[m].val = emits[m].calls[c].raised

\* C17: when a listener of 'x' fails during emit('x') while 'error' has at least one
\* listener, emit('x') resolves and every 'error' listener is called with the value
\* raised.
C17_HandledByErrorListeners ==
  \A m \in Emitted :
    (/\ emits[m].name = "x"
     /\ Settled(m)
     /\ Failed(m) # {}
     /\ Size(listenersByName, "error") > 0) =>
      /\ emits[m].st = "resolved"
      /\ \A c \in Failed(m) :
           \E d \in Deliveries("error", emits[m].calls[c].raised) : CalledAll(d)

\* C18: emit('error', data) while 'error' has no listener rejects with data itself;
\* with at least one 'error' listener (none of which fails) it resolves.
C18_UnobservedErrorRejects ==
  \A m \in Emitted :
    emits[m].name = "error" =>
      /\ emits[m].snap = <<>> =>
           (emits[m].st = "rejected" /\ emits[m].val = emits[m].data)
      /\ (emits[m].snap # <<>> /\ Settled(m) /\ NoFailure(m)) =>
           emits[m].st = "resolved"

\* C19: every failure of a listener of 'x' is delivered to every errorMonitor
\* listener, whether or not 'error' has a listener, and that delivery has completed
\* before an 'error' listener is called for the failure and before the failure is
\* re-raised.
C19_MonitorSeesEveryFailureFirst ==
  \A m \in Emitted : \A c \in Failed(m) :
    LET call == emits[m].calls[c]
    IN (emits[m].name = "x" /\ Size(listenersByName, errorMonitor) > 0) =>
         \E d \in Deliveries(errorMonitor, call.raised) :
           \* the wrapper is past its await of emit(errorMonitor)
           /\ call.ph \in {"err", "ok", "fail"} => CalledAll(d)
           \* an 'error' listener was called for the failure
           /\ (\E h \in Deliveries("error", call.raised) : emits[h].calls # <<>>) =>
                (emits[d].st = "resolved" /\ CalledAll(d))
           \* the failure was re-raised
           /\ (call.ph = "fail" /\ call.val = call.raised) =>
                (emits[d].st = "resolved" /\ CalledAll(d))

\* C20: errorMonitor listeners only observe: whatever they do, they change neither
\* whether emit('x') resolves or rejects nor the value it rejects with; so
\* emit('x') never rejects with a value that an errorMonitor listener raised.
C20_MonitorOnlyObserves ==
  \A m \in Emitted :
    (emits[m].name = "x" /\ emits[m].st = "rejected") =>
      \A d \in Emitted : \A c \in Failed(d) :
        emits[d].name = errorMonitor => emits[m].val # emits[d].calls[c].raised

\* every promise of the program has settled: no emit and no listener call is pending
Quiescent ==
  /\ Idle
  /\ \A m \in Emitted : Settled(m) /\ \A c \in CallsOf(m) : emits[m].calls[c].ph \in {"ok", "fail"}

\* C21: the listeners of 'error' and of errorMonitor are not wrapped: a failure of
\* such a listener starts no dispatch on errorMonitor or on 'error', and a failure
\* of any listener starts at most one dispatch on errorMonitor and at most one on
\* 'error'.
C21_NoErrorAboutError ==
  \A m \in Emitted : \A c \in Failed(m) :
    LET v == emits[m].calls[c].raised
    IN /\ Cardinality(Deliveries(errorMonitor, v)) <= 1
       /\ Cardinality(Deliveries("error", v)) <= 1
       /\ emits[m].name \in {"error", errorMonitor} =>
            /\ ~emits[m].calls[c].wrapped
            /\ Deliveries(errorMonitor, v) = {}
            /\ Deliveries("error", v) = {}

\* a listener called by a dispatch of the protocol failed, and the emit of 'x' that
\* started the dispatch has settled
C21_Witness ==
  \E m, d \in Emitted : \E c \in Failed(m) :
    /\ emits[m].name = "x"
    /\ Settled(m)
    /\ emits[d].name \in {"error", errorMonitor}
    /\ emits[d].data = emits[m].calls[c].raised
    /\ Failed(d) # {}

\* C22: no failure is lost: once everything has settled, every value a listener
\* raised is the rejection value of the promise of an emit the program called, or
\* was delivered to at least one listener of 'error' or errorMonitor, also when
\* several listeners of one emit fail.
C22_NoFailureLost ==
  Quiescent =>
    \A m \in Emitted : \A c \in Failed(m) :
      LET v == emits[m].calls[c].raised
      IN \/ \E p \in Emitted :
              /\ emits[p].name \notin {"error", errorMonitor} \/ emits[p].data < 100
              /\ emits[p].st = "rejected"
              /\ emits[p].val = v
         \/ \E d \in Deliveries("error", v) \cup Deliveries(errorMonitor, v) :
              emits[d].calls # <<>>

Waits == 1..Len(waits)
\* the calls emits made of the listeners that wait w subscribed, as <<emit, call>>
ListenerCalls(w) ==
  UNION {{<<m, c>> : c \in {k \in CallsOf(m) : emits[m].calls[k].at \in waits[w].subs}} :
           m \in Emitted}
\* a subscription of wait w is in the registry
Subscribing(w) == \E i \in waits[w].subs : IsRegistered(listenersByName, i)
\* the emits that began while a subscription of wait w was in the registry
EmitsFor(w) == {m \in Emitted : Snap(m) \cap waits[w].subs # {}}
\* the token of wait w was triggered after the wait was issued and before an emit
\* called its listener
TriggeredFirst(w) ==
  /\ waits[w].sig
  /\ waits[w].subs # {}
  /\ aborted
  /\ ListenerCalls(w) = {}
\* the identifiers wait w listed that have no listener are not keys of the Map
Pruned(w) ==
  \A k \in 1..Len(waits[w].names) :
    Size(listenersByName, waits[w].names[k]) = 0 =>
      waits[w].names[k] \notin Keys(listenersByName)

\* C23: wait(e) resolves with the data of the first emit(e, data) that begins after
\* the wait was issued, and once it has resolved its subscription is not in the
\* registry.
C23_WaitResolvesWithFirstEmit ==
  \A w \in Waits :
    (waits[w].kind = "wait" /\ waits[w].st = "resolved") =>
      /\ ~Subscribing(w)
      /\ \E m \in Emitted :
           /\ m > waits[w].since
           /\ emits[m].name = waits[w].names[1]
           /\ waits[w].val = Data(emits[m].data)
           /\ \A k \in (waits[w].since + 1)..(m - 1) : emits[k].name # waits[w].names[1]

C25_Step ==
  (/\ Len(waits') = Len(waits) + 1
   /\ waits'[Len(waits')].kind \in {"wait", "race"}
   /\ waits'[Len(waits')].sig
   /\ aborted) =>
    /\ waits'[Len(waits')].st = "rejected"
    /\ waits'[Len(waits')].subs = {}
    /\ listenersByName' = listenersByName
    /\ subs' = subs
    /\ abortListeners' = abortListeners

C25_AbortedTokenFailsFirst == [][C25_Step]_vars

C25_Witness ==
  \E w, r \in Waits :
    /\ waits[w].kind = "wait" /\ waits[r].kind = "race"
    /\ waits[w].st = "rejected" /\ waits[r].st = "rejected"
    /\ waits[w].val = Reason /\ waits[r].val = Reason

\* C26 as claimed: the outcome of wait and race with a token is decided by whichever
\* of "the awaited event is emitted" and "the token triggers" happens first: a wait
\* that rejected with an AbortError saw no emit of its event begin while it was
\* subscribed, that is before the trigger.
C26_FirstOfEmitAndTrigger ==
  \A w \in Waits :
    (waits[w].st = "rejected" /\ waits[w].val.t = "AbortError") => EmitsFor(w) = {}

\* C26 as amended: the outcome is decided by whichever of "an emit calls the listener
\* of the wait" and "the token triggers" happens first.  A resolved wait had its
\* listener called exactly once and holds the data of that emit, also after a later
\* trigger; a wait rejected with an AbortError never has its listener called; in both
\* cases no subscription and no abort hook of the wait remains.
C26_FirstOfCallAndTrigger ==
  \A w \in Waits :
    waits[w].kind \in {"wait", "race"} =>
      /\ waits[w].st = "resolved" =>
           /\ Cardinality(ListenerCalls(w)) = 1
           /\ \A mc \in ListenerCalls(w) : waits[w].val = Data(emits[mc[1]].data)
      /\ (waits[w].st = "rejected" /\ waits[w].val.t = "AbortError") =>
           /\ aborted
           /\ ListenerCalls(w) = {}
      /\ waits[w].st = "pending" => ListenerCalls(w) = {}
      /\ waits[w].st # "pending" =>
           /\ ~Subscribing(w)
           /\ (0 - w) \notin abortListeners

\* the event came first and the token was triggered later
C26_Witness ==
  \E w \in Waits :
    /\ waits[w].kind = "race"
    /\ waits[w].sig
    /\ waits[w].st = "resolved"
    /\ aborted

\* C27: throwOnError(token) resolves to nothing whenever its token is triggered
\* without an 'error' having been emitted first, at whatever moment the token is
\* triggered.
C27_ThrowOnErrorResolvesOnAbort ==
  \A w \in Waits :
    (/\ waits[w].kind = "throwOnError"
     /\ waits[w].sig
     /\ aborted
     /\ ListenerCalls(w) = {}) =>
      (waits[w].st = "resolved" /\ waits[w].val = Undefined)

\* C28: while throwOnError() is pending, the first emit('error', v) makes it reject
\* with exactly v, and no 'error' subscription of throwOnError remains afterwards.
C28_FirstErrorRejects ==
  \A w \in Waits :
    (waits[w].kind = "throwOnError" /\ ~waits[w].sig) =>
      \A m \in EmitsFor(w) :
        Dispatched(m) =>
          /\ waits[w].st = "rejected"
          /\ ~Subscribing(w)
          /\ (\A k \in EmitsFor(w) : k >= m) => waits[w].val = Data(emits[m].data)

\* C29: race subscribes to every identifier of its list; the first emit of one of
\* them resolves the race with the data of that emit and removes all the
\* subscriptions of the race.
C29_FirstEmitResolvesRace ==
  \A w \in Waits :
    (waits[w].kind = "race" /\ ~(waits[w].sig /\ aborted)) =>
      /\ Cardinality(waits[w].subs) = Len(waits[w].names)
      /\ \A m \in EmitsFor(w) :
           Dispatched(m) =>
             /\ waits[w].st = "resolved"
             /\ ~Subscribing(w)
             /\ (\A k \in EmitsFor(w) : k >= m) => waits[w].val = Data(emits[m].data)

\* C30: when the token given to race(ids, token), with two identifiers or more,
\* triggers before any of them is emitted, the race rejects with one AbortError
\* naming all the identifiers and every subscription of the race is removed: no
\* identifier is in eventNames() because of the race.
C30_RaceAborted ==
  \A w \in Waits :
    (waits[w].kind = "race" /\ TriggeredFirst(w)) =>
      /\ waits[w].st = "rejected"
      /\ waits[w].val.t = "AbortError"
      /\ waits[w].val.names = waits[w].names
      /\ Len(waits[w].val.names) >= 2
      /\ ~Subscribing(w)
      /\ Pruned(w)

C30_Witness ==
  \E w \in Waits :
    /\ waits[w].kind = "race"
    /\ TriggeredFirst(w)
    /\ waits[w].st = "rejected"
    /\ Keys(listenersByName) = {}

\* C31: once the token given to on or once is triggered, the subscription made with
\* it is no longer in the registry (so that no later emit calls its listener), for
\* every identifier, 'error' and errorMonitor included, and whatever other
\* subscriptions share its listener.
C31_TriggeredTokenUnsubscribes ==
  aborted =>
    \A i \in 1..Len(subs) :
      (subs[i].sig /\ subs[i].ok) => ~IsRegistered(listenersByName, i)

\* C32: the bulk form of on registers the non-null listeners of the mapping, string
\* keys before symbol keys, and invoking its handle removes all the subscriptions it
\* created and no others.
C32_BulkHandleRemovesItsOwn ==
  /\ \A i \in Configured : subs[i].fn # Null
  /\ \A i, j \in Configured :
       (i < j /\ subs[i].name = errorMonitor) => subs[j].name = errorMonitor
  /\ (CanCall /\ \A i \in Configured : subs[i].ok) =>
       LET R == OffEach(Machine, Configured)
       IN /\ \A i \in Configured : ~IsRegistered(R.reg, i)
          /\ (Entries(listenersByName) \ {<<subs[i].name, i>> : i \in Configured})
                \subseteq Entries(R.reg)

\* C37: a call of on or once that fails leaves the registry unchanged: eventNames()
\* and every eventListenerCount are the same as before the call.
C37_Step ==
  (Len(subs') = Len(subs) + 1 /\ ~subs'[Len(subs')].ok) =>
    /\ Keys(listenersByName') = Keys(listenersByName)
    /\ \A n \in Names : Size(listenersByName', n) = Size(listenersByName, n)

C37_FailedOnChangesNothing == [][C37_Step]_vars

\* C38: the bulk form of on is all-or-nothing: when one of its calls of on fails,
\* none of the listeners of the mapping is registered after the call.
C38_Step ==
  (/\ Configured = {}
   /\ \E i \in 1..Len(subs') : subs'[i].cfg /\ ~subs'[i].ok) =>
    \A i \in 1..Len(subs') :
      subs'[i].cfg =>
        \A k \in 1..Len(listenersByName'[subs'[i].name].set) :
          listenersByName'[subs'[i].name].set[k].at # i

C38_BulkAllOrNothing == [][C38_Step]_vars

\* C33: registering the identical listener reference twice for the same identifier
\* with on collapses to one entry: for every identifier the Set holds at most one
\* entry for one function of the caller.
C33_IdenticalListenerCollapses ==
  \A n \in Names, fn \in Fns :
    Cardinality({k \in 1..Size(listenersByName, n) :
                   /\ subs[listenersByName[n].set[k].at].kind = "on"
                   /\ subs[listenersByName[n].set[k].at].fn = fn}) <= 1

\* the calls of emitSerial
Serial == {m \in Emitted : emits[m].serial}
\* the listener calls of emit m that are in progress
InProgress(m) == {c \in CallsOf(m) : emits[m].calls[c].ph \in {"run", "pend"}}

\* C34: emitSerial calls the listeners one at a time in registration order: a
\* listener is started only after the result of the previous one has settled, so no
\* two listeners of one emitSerial are in progress at the same time.
C34_OneListenerAtATime ==
  \A m \in Serial :
    /\ Cardinality(InProgress(m)) <= 1
    /\ \A c \in CallsOf(m) : c < Len(emits[m].calls) => emits[m].calls[c].ph = "ok"
    /\ \A i, j \in CallsOf(m) : i < j => emits[m].calls[i].at < emits[m].calls[j].at

\* the second listener was started after the promise of the first had been pending
C34_Witness ==
  \E m \in Serial :
    /\ Len(emits[m].calls) >= 2
    /\ emits[m].calls[1].async
    /\ emits[m].calls[2].ph = "pend"

\* C35: when a listener fails during emitSerial, emitSerial rejects with the error of
\* that listener and no listener registered after the failing one is called by that
\* emitSerial.
C35_SerialStopsAtFailure ==
  \A m \in Serial :
    /\ \A c \in CallsOf(m) : emits[m].calls[c].ph = "fail" => c = Len(emits[m].calls)
    /\ emits[m].st = "rejected" =>
         /\ emits[m].calls # <<>>
         /\ Last(emits[m].calls).ph = "fail"
         /\ emits[m].val = Last(emits[m].calls).raised
    /\ emits[m].st = "resolved" =>
         \A c \in CallsOf(m) : emits[m].calls[c].ph = "ok"
    /\ (Idle /\ emits[m].st = "serial") => Last(emits[m].calls).ph # "run"

\* the first of two listeners failed and the second is still registered, not called
C35_Witness ==
  \E m \in Serial :
    /\ emits[m].st = "rejected"
    /\ Len(emits[m].calls) = 1
    /\ \E a \in Snap(m) :
         /\ a > emits[m].calls[1].at
         /\ IsRegistered(listenersByName, a)

\* C40: in the legacy EventEmitter a listener subscribed with once is called at most
\* once, also when a listener registered before it emits the same identifier again
\* from inside the outer emit.
C40_LegacyOnceAtMostOnce ==
  \A i \in 1..Len(subs) :
    subs[i].kind = "once" =>
      Cardinality(UNION {{<<m, c>> : c \in CallsOfSub(m, i)} : m \in Emitted}) <= 1

\* C36: once a wait or race with a numeric timeout has settled, no timer and no
\* abort hook created for it remains pending.
C36_NoTimerAfterSettled ==
  \A w \in Waits :
    (waits[w].timer # "none" /\ waits[w].st # "pending") => waits[w].timer = "expired"

\* C39: the number of listener calls made by one emit is bounded by the number of
\* subscriptions of its identifier at the moment the emit began, also when listeners
\* subscribe further listeners to it during the dispatch.
C39_CallsBoundedBySubscriptions ==
  \A m \in Emitted : Len(emits[m].calls) <= Len(emits[m].snap)

====
